---- MODULE Spec2Model ----
(***************************************************************************)
(* Vendor CRM API (src/main.py, src/schemas.py): request validation,       *)
(* vendor existence checks, pass-through store queries and serialization.  *)
(*                                                                         *)
(* Strings whose characters matter (identifiers, business names, e-mail    *)
(* addresses) are sequences of one-character strings; opaque strings are   *)
(* TLA+ strings.                                                           *)
(***************************************************************************)
EXTENDS Integers, Sequences, FiniteSets, TLC

VARIABLES
    dbState,     \* "none": db is None; "up": handle set, store reachable; "down": handle set, store unreachable
    store,       \* collection name -> sequence of persisted documents, in insertion order
    oidCounter,  \* number of identifiers the store has generated
    issued,      \* identifier strings returned by creates so far
    pending,     \* child creates between their vendor lookup and their insert
    resp         \* the response of the request that completed last

vars == <<dbState, store, oidCounter, issued, pending, resp>>

----------------------------------------------------------------------------
(* Bounds of the model *)

\* documents created during a run
MaxDocs == 3
\* child creates that may be between lookup and insert at once
MaxInFlight == 2
\* largest caller-supplied limit tried
MaxLimit == 3
\* collections of the database that belong to other applications
MaxExtraCollections == 9
\* documents a run of BulkSpec or QuerySpec adds to the store it starts with
MaxBulkNew == 1

----------------------------------------------------------------------------
(* Optional values and characters *)

\* a field of a request body: left out, JSON null, or carrying a value;
\* an Optional[...] value is Null or Val(v)
Absent == [tag |-> "absent"]

Null == [tag |-> "null"]

Val(v) == [tag |-> "value", val |-> v]

HasValue(o) == o.tag = "value"

\* Python truthiness of an Optional[str]: None and the empty string are falsy
Truthy(o, empty) == o.tag = "value" /\ o.val # empty

Uppers == <<"A","B","C","D","E","F","G","H","I","J","K","L","M",
            "N","O","P","Q","R","S","T","U","V","W","X","Y","Z">>

Lowers == <<"a","b","c","d","e","f","g","h","i","j","k","l","m",
            "n","o","p","q","r","s","t","u","v","w","x","y","z">>

UpperSet == {Uppers[i] : i \in 1..Len(Uppers)}

LowerSet == {Lowers[i] : i \in 1..Len(Lowers)}

LowerOf == [c \in UpperSet |-> Lowers[CHOOSE i \in 1..Len(Uppers) : Uppers[i] = c]]

UpperOf == [c \in LowerSet |-> Uppers[CHOOSE i \in 1..Len(Lowers) : Lowers[i] = c]]

LowerChar(c) == IF c \in UpperSet THEN LowerOf[c] ELSE c

UpperChar(c) == IF c \in LowerSet THEN UpperOf[c] ELSE c

Lower(s) == [i \in 1..Len(s) |-> LowerChar(s[i])]

Upper(s) == [i \in 1..Len(s) |-> UpperChar(s[i])]

Take(s, n) == IF n >= Len(s) THEN s ELSE SubSeq(s, 1, n)

Min(a, b) == IF a <= b THEN a ELSE b

----------------------------------------------------------------------------
(* Identifiers: bson ObjectId as used by to_object_id *)

HexChars == <<"0","1","2","3","4","5","6","7","8","9","a","b","c","d","e","f">>

\* an ObjectId is 12 bytes, written as 24 hexadecimal characters
OidHexLen == 24

HexSet == {HexChars[i] : i \in 1..Len(HexChars)}

IsHexChar(c) == LowerChar(c) \in HexSet

\* ObjectId(id_str) accepts exactly the strings of 24 hex characters, of either case
IsValidObjectId(s) == Len(s) = OidHexLen /\ \A i \in 1..Len(s) : IsHexChar(s[i])

\* the parsed identifier; str() of it is the lower-case hex
ObjectId(s) == [hex |-> Lower(s)]

StrOid(o) == o.hex

HttpError(status, detail) == [ok |-> FALSE, status |-> status, detail |-> detail]

\* a parse that takes any string
to_object_id_any(id_str) == [ok |-> TRUE, oid |-> ObjectId(id_str)]

to_object_id(id_str) ==
    IF IsValidObjectId(id_str)
    THEN [ok |-> TRUE, oid |-> ObjectId(id_str)]
    ELSE HttpError(400, "Invalid id format")

\* the n-th identifier the store generates: a fixed machine part and a counter
NewOid(n) ==
    [hex |-> [i \in 1..OidHexLen |->
        IF i = 1 THEN "a"
        ELSE IF OidHexLen - i < 3
             THEN HexChars[((n \div (16 ^ (OidHexLen - i))) % 16) + 1]
             ELSE "0"]]

----------------------------------------------------------------------------
(* Schemas (pydantic models) *)

\* an Optional field of a validated entity: left out and null both give None
Opt(o) == IF o.tag = "value" THEN o ELSE Null

CountChar(s, c) == Cardinality({i \in 1..Len(s) : s[i] = c})

\* EmailStr: one "@" with a local part before it and a dotted domain after it
IsEmailShape(s) ==
    /\ CountChar(s, "@") = 1
    /\ LET at == CHOOSE i \in 1..Len(s) : s[i] = "@"
       IN /\ at > 1
          /\ \E d \in (at + 2)..(Len(s) - 1) : s[d] = "."
          /\ s[at + 1] # "."

VendorStatuses == {"active", "pending", "suspended"}

DealStages == {"lead", "qualified", "proposal", "won", "lost"}

\* a required field (Field(...)): left out or null is an error
RequiredErrors(body, fields) == {f \in fields : body[f].tag # "value"}

\* a Literal field with a default: left out takes the default, anything else must be in the set
LiteralErrors(body, f, allowed) ==
    IF body[f].tag = "absent" \/ (body[f].tag = "value" /\ body[f].val \in allowed)
    THEN {} ELSE {f}

\* an Optional[EmailStr] field
OptionalEmailErrors(body, f) ==
    IF body[f].tag = "value" /\ ~IsEmailShape(body[f].val) THEN {f} ELSE {}

\* the fields of a request body pydantic reports, every one of them
VendorErrors(body) ==
    RequiredErrors(body, {"name", "email", "business_name"})
    \cup OptionalEmailErrors(body, "email")
    \cup LiteralErrors(body, "status", VendorStatuses)

\* the schema with another default status
VendorDefaultPending(body) ==
    [name |-> body.name.val, email |-> body.email.val,
     business_name |-> body.business_name.val,
     phone |-> Opt(body.phone), category |-> Opt(body.category),
     website |-> Opt(body.website),
     status |-> IF body.status.tag = "value" THEN body.status.val ELSE "pending"]

Vendor(body) ==
    [name |-> body.name.val, email |-> body.email.val,
     business_name |-> body.business_name.val,
     phone |-> Opt(body.phone), category |-> Opt(body.category),
     website |-> Opt(body.website),
     status |-> IF body.status.tag = "value" THEN body.status.val ELSE "active"]

ContactErrors(body) ==
    RequiredErrors(body, {"vendor_id", "name"})
    \cup OptionalEmailErrors(body, "email")

Contact(body) ==
    [vendor_id |-> body.vendor_id.val, name |-> body.name.val,
     email |-> Opt(body.email), phone |-> Opt(body.phone), role |-> Opt(body.role)]

\* the schema without ge=0
DealErrorsNoMinimum(body) ==
    RequiredErrors(body, {"vendor_id", "title", "value"})
    \cup LiteralErrors(body, "stage", DealStages)

\* value: float = Field(..., ge=0)
DealErrors(body) ==
    RequiredErrors(body, {"vendor_id", "title", "value"})
    \cup (IF body.value.tag = "value" /\ ~(body.value.val >= 0) THEN {"value"} ELSE {})
    \cup LiteralErrors(body, "stage", DealStages)

Deal(body) ==
    [vendor_id |-> body.vendor_id.val, title |-> body.title.val,
     value |-> body.value.val,
     stage |-> IF body.stage.tag = "value" THEN body.stage.val ELSE "lead",
     notes |-> Opt(body.notes)]

NoteErrors(body) == RequiredErrors(body, {"vendor_id", "content"})

Note(body) ==
    [vendor_id |-> body.vendor_id.val, content |-> body.content.val,
     author |-> Opt(body.author)]

ChildKinds == {"contact", "deal", "note"}

Kinds == {"vendor"} \cup ChildKinds

SchemaErrors(kind, body) ==
    CASE kind = "vendor" -> VendorErrors(body)
      [] kind = "contact" -> ContactErrors(body)
      [] kind = "deal" -> DealErrors(body)
      [] kind = "note" -> NoteErrors(body)

Entity(kind, body) ==
    CASE kind = "vendor" -> Vendor(body)
      [] kind = "contact" -> Contact(body)
      [] kind = "deal" -> Deal(body)
      [] kind = "note" -> Note(body)

----------------------------------------------------------------------------
(* Store adapter: create_document, get_documents, and pymongo's find_one *)

CollectionOf(kind) == kind

EmptyStore == [k \in Kinds |-> <<>>]

\* case-insensitive search of a literal pattern: {"$regex": q, "$options": "i"}
RegexSearchIgnoreCase(s, q) ==
    \E i \in 0..(Len(s) - Len(q)) :
        \A j \in 1..Len(q) : LowerChar(s[i + j]) = LowerChar(q[j])

\* a filter maps field names to conditions, all of which a document must meet
EmptyFilter == [f \in {} |-> Null]

Eq(v) == [op |-> "eq", val |-> v]

Regex(q) == [op |-> "regex_i", val |-> q]

Matches(doc, filt) ==
    \A f \in DOMAIN filt :
        /\ f \in DOMAIN doc
        /\ IF filt[f].op = "eq" THEN doc[f] = filt[f].val
           ELSE RegexSearchIgnoreCase(doc[f], filt[f].val)

Matching(docs, filt) ==
    LET Test(d) == Matches(d, filt) IN SelectSeq(docs, Test)

\* the store can serve an operation only through an initialized handle to a reachable server
StoreAvailable(db) == db = "up"

\* up to limit matching documents, in the store's (insertion) order
get_documents(st, collection_name, filt, limit) ==
    Take(Matching(st[collection_name], filt), limit)

\* db["vendor"].find_one({"_id": oid}): the document with that identifier, or None
find_one(st, collection_name, oid) ==
    LET found == Matching(st[collection_name], [f \in {"_id"} |-> Eq(oid)])
    IN IF found = <<>> THEN Null ELSE Val(found[1])

\* the document insert persists: the entity's fields and a newly generated identifier
NewDocument(entity, oid) ==
    [f \in (DOMAIN entity) \cup {"_id"} |-> IF f = "_id" THEN oid ELSE entity[f]]

\* create_document's effect on the store and the identifier string it returns
Inserted(st, collection_name, entity, oid) ==
    [st EXCEPT ![collection_name] = Append(@, NewDocument(entity, oid))]

\* serialize: _id is popped and its string put under id; an empty document is returned as it is
serialize(doc) ==
    IF DOMAIN doc = {} THEN doc
    ELSE [f \in ((DOMAIN doc) \ {"_id"}) \cup {"id"} |->
            IF f = "id" THEN StrOid(doc["_id"]) ELSE doc[f]]

SerializeAll(docs) == [i \in 1..Len(docs) |-> serialize(docs[i])]

----------------------------------------------------------------------------
(* Responses *)

\* a completed request: the handler, what was sent, the status, the body returned and
\* the store operations the handler issued, in order.  Every body is a record: an
\* error is {detail}, a validation error {detail, fields} with every offending field,
\* a create's {id}; the JSON array a listing returns is held under items.
Response(op, req, status, body, calls) ==
    [op |-> op, req |-> req, status |-> status, body |-> body, calls |-> calls]

NoResponse == Response("none", Null, 0, Null, <<>>)

\* FastAPI answers a body or query that fails validation with 422 and every offending field
ValidationFailure(op, req, fields) ==
    Response(op, req, 422, [detail |-> "validation error", fields |-> fields], <<>>)

\* an exception that is no HTTPException reaches the server as 500
Unhandled(op, req, calls) ==
    Response(op, req, 500, [detail |-> "Internal Server Error"], calls)

HttpFailure(op, req, err, calls) ==
    Response(op, req, err.status, [detail |-> err.detail], calls)

CreateOp(kind) == 
    CASE kind = "vendor" -> "create_vendor"
      [] kind = "contact" -> "create_contact"
      [] kind = "deal" -> "create_deal"
      [] kind = "note" -> "create_note"

ListOp(kind) == 
    CASE kind = "vendor" -> "list_vendors"
      [] kind = "contact" -> "list_contacts"
      [] kind = "deal" -> "list_deals"
      [] kind = "note" -> "list_notes"

----------------------------------------------------------------------------
(* Request handlers *)

\* read_root
ReadRoot ==
    /\ resp' = Response("read_root", Null, 200, [message |-> "Vendor CRM API running"], <<>>)
    /\ UNCHANGED <<dbState, store, oidCounter, issued, pending>>

\* the names list_collection_names returns: a collection exists once it holds a document
CollectionNames(st, extra) ==
    [i \in 1..extra |-> <<"other", i>>]
    \o SelectSeq(<<"vendor", "contact", "deal", "note">>, LAMBDA k : st[k] # <<>>)

CollectionsCap == 10

\* the status object with every collection name in it
HealthStatusUncapped(db, st, extra) ==
    IF db = "none"
    THEN [backend |-> "Running", database |-> "Available but not initialized",
          database_url |-> Null, database_name |-> Null,
          connection_status |-> "Not Connected", collections |-> <<>>]
    ELSE IF db = "up"
    THEN [backend |-> "Running", database |-> "Connected & Working",
          database_url |-> Val("Set"), database_name |-> Val("name"),
          connection_status |-> "Connected",
          collections |-> CollectionNames(st, extra)]
    ELSE [backend |-> "Running", database |-> "Connected but Error",
          database_url |-> Val("Set"), database_name |-> Val("name"),
          connection_status |-> "Connected", collections |-> <<>>]

\* test_database: the status object; nothing it catches is raised again
HealthStatus(db, st, extra) ==
    IF db = "none"
    THEN [backend |-> "Running", database |-> "Available but not initialized",
          database_url |-> Null, database_name |-> Null,
          connection_status |-> "Not Connected", collections |-> <<>>]
    ELSE IF db = "up"
    THEN [backend |-> "Running", database |-> "Connected & Working",
          database_url |-> Val("Set"), database_name |-> Val("name"),
          connection_status |-> "Connected",
          collections |-> Take(CollectionNames(st, extra), CollectionsCap)]
    ELSE [backend |-> "Running", database |-> "Connected but Error",
          database_url |-> Val("Set"), database_name |-> Val("name"),
          connection_status |-> "Connected", collections |-> <<>>]

TestDatabase(extra) ==
    /\ resp' = Response("test_database", [extra |-> extra], 200, HealthStatus(dbState, store, extra),
                        IF dbState = "none" THEN <<>> ELSE <<"list_collection_names">>)
    /\ UNCHANGED <<dbState, store, oidCounter, issued, pending>>

\* model_json_schema of an entity: its properties and the required ones
VendorSchema ==
    [properties |-> {"name", "email", "business_name", "phone", "category", "website", "status"},
     required |-> {"name", "email", "business_name"}]

ContactSchema ==
    [properties |-> {"vendor_id", "name", "email", "phone", "role"},
     required |-> {"vendor_id", "name"}]

DealSchema ==
    [properties |-> {"vendor_id", "title", "value", "stage", "notes"},
     required |-> {"vendor_id", "title", "value"}]

NoteSchema ==
    [properties |-> {"vendor_id", "content", "author"},
     required |-> {"vendor_id", "content"}]

GetSchema ==
    /\ resp' = Response("get_schema", Null, 200,
                        [vendor |-> VendorSchema, contact |-> ContactSchema,
                         deal |-> DealSchema, note |-> NoteSchema], <<>>)
    /\ UNCHANGED <<dbState, store, oidCounter, issued, pending>>

\* create_document as a handler's last step: the response, and the store it leaves
InsertStep(op, kind, body, calls) ==
    IF StoreAvailable(dbState)
    THEN LET oid == NewOid(oidCounter + 1)
         IN /\ store' = Inserted(store, CollectionOf(kind), Entity(kind, body), oid)
            /\ oidCounter' = oidCounter + 1
            /\ issued' = issued \cup {StrOid(oid)}
            /\ resp' = Response(op, body, 200, [id |-> StrOid(oid)], Append(calls, "insert_one"))
    ELSE /\ resp' = Unhandled(op, body, IF dbState = "none" THEN calls
                                  ELSE Append(calls, "insert_one"))
         /\ UNCHANGED <<store, oidCounter, issued>>

\* create_vendor
CreateVendor(body) ==
    /\ IF VendorErrors(body) # {}
       THEN /\ resp' = ValidationFailure("create_vendor", body, VendorErrors(body))
            /\ UNCHANGED <<store, oidCounter, issued>>
       ELSE InsertStep("create_vendor", "vendor", body, <<>>)
    /\ UNCHANGED <<dbState, pending>>

\* the handler without its "if not v" branch
VendorCheckNoBranch(kind, body, db, st) ==
    LET op == CreateOp(kind)
        parsed == to_object_id(body.vendor_id.val)
    IN  IF SchemaErrors(kind, body) # {}
        THEN [done |-> TRUE, resp |-> ValidationFailure(op, body, SchemaErrors(kind, body))]
        ELSE IF db = "none"
        THEN [done |-> TRUE, resp |-> Unhandled(op, body, <<>>)]
        ELSE IF ~parsed.ok
        THEN [done |-> TRUE, resp |-> HttpFailure(op, body, parsed, <<>>)]
        ELSE IF ~StoreAvailable(db)
        THEN [done |-> TRUE, resp |-> Unhandled(op, body, <<"find_one">>)]
        ELSE [done |-> FALSE, kind |-> kind, body |-> body, calls |-> <<"find_one">>]

\* the handler taking a failed lookup for a vendor that does not exist
VendorCheckSwallowsOutage(kind, body, db, st) ==
    LET op == CreateOp(kind)
        parsed == to_object_id(body.vendor_id.val)
    IN  IF SchemaErrors(kind, body) # {}
        THEN [done |-> TRUE, resp |-> ValidationFailure(op, body, SchemaErrors(kind, body))]
        ELSE IF db = "none"
        THEN [done |-> TRUE, resp |-> Unhandled(op, body, <<>>)]
        ELSE IF ~parsed.ok
        THEN [done |-> TRUE, resp |-> HttpFailure(op, body, parsed, <<>>)]
        ELSE IF ~StoreAvailable(db) \/ find_one(st, "vendor", parsed.oid) = Null
        THEN [done |-> TRUE, resp |-> HttpFailure(op, body, HttpError(404, "Vendor not found"),
                                                  <<"find_one">>)]
        ELSE [done |-> FALSE, kind |-> kind, body |-> body, calls |-> <<"find_one">>]

\* create_contact, create_deal, create_note up to "if not v": the response that ends
\* the request there, or the entity that goes on to create_document
VendorCheck(kind, body, db, st) ==
    LET op == CreateOp(kind)
        parsed == to_object_id(body.vendor_id.val)
    IN  IF SchemaErrors(kind, body) # {}
        THEN [done |-> TRUE, resp |-> ValidationFailure(op, body, SchemaErrors(kind, body))]
        ELSE IF db = "none"
        THEN [done |-> TRUE, resp |-> Unhandled(op, body, <<>>)]
        ELSE IF ~parsed.ok
        THEN [done |-> TRUE, resp |-> HttpFailure(op, body, parsed, <<>>)]
        ELSE IF ~StoreAvailable(db)
        THEN [done |-> TRUE, resp |-> Unhandled(op, body, <<"find_one">>)]
        ELSE IF find_one(st, "vendor", parsed.oid) = Null
        THEN [done |-> TRUE, resp |-> HttpFailure(op, body, HttpError(404, "Vendor not found"),
                                                  <<"find_one">>)]
        ELSE [done |-> FALSE, kind |-> kind, body |-> body, calls |-> <<"find_one">>]

BeginCreateChild(kind, body) ==
    LET r == VendorCheck(kind, body, dbState, store)
    IN  /\ IF r.done
           THEN resp' = r.resp /\ pending' = pending
           ELSE resp' = resp /\ pending' = Append(pending, r)
        /\ UNCHANGED <<dbState, store, oidCounter, issued>>

Remove(s, i) == SubSeq(s, 1, i - 1) \o SubSeq(s, i + 1, Len(s))

FinishCreateChild(i) ==
    /\ i \in 1..Len(pending)
    /\ InsertStep(CreateOp(pending[i].kind), pending[i].kind, pending[i].body,
                  pending[i].calls)
    /\ pending' = Remove(pending, i)
    /\ UNCHANGED dbState

VendorsDefaultLimit == 50

ContactsDefaultLimit == 100

DealsDefaultLimit == 100

NotesDefaultLimit == 100

\* a handler that passes its default on whatever the caller sent
EffectiveLimitDefaultOnly(limit, default) == default

EffectiveLimit(limit, default) == IF limit.tag = "value" THEN limit.val ELSE default

\* list_vendors: "if q" searches business_name
VendorsFilter(q) ==
    IF Truthy(q, <<>>) THEN [f \in {"business_name"} |-> Regex(q.val)] ELSE EmptyFilter

\* list_contacts
ContactsFilter(vendor_id) ==
    IF Truthy(vendor_id, <<>>) THEN [f \in {"vendor_id"} |-> Eq(vendor_id.val)] ELSE EmptyFilter

\* a deals filter that leaves the stage out
DealsFilterVendorOnly(vendor_id, stage) ==
    IF Truthy(vendor_id, <<>>) THEN [f \in {"vendor_id"} |-> Eq(vendor_id.val)] ELSE EmptyFilter

\* list_deals
DealsFilter(vendor_id, stage) ==
    [f \in (IF Truthy(vendor_id, <<>>) THEN {"vendor_id"} ELSE {})
           \cup (IF Truthy(stage, "") THEN {"stage"} ELSE {}) |->
        IF f = "vendor_id" THEN Eq(vendor_id.val) ELSE Eq(stage.val)]

\* list_notes: vendor_id is a required parameter and always filters
NotesFilter(vendor_id) == [f \in {"vendor_id"} |-> Eq(vendor_id.val)]

\* a list handler's response body: the documents found, serialized
Listing(st, kind, filt, limit) == SerializeAll(get_documents(st, CollectionOf(kind), filt, limit))

\* a listing that stores the serialized documents in place of the persisted ones
ListStepWritesBack(kind, req, filt, limit) ==
    /\ resp' = IF StoreAvailable(dbState)
               THEN Response(ListOp(kind), req, 200,
                             [items |-> Listing(store, kind, filt, limit)], <<"find">>)
               ELSE Unhandled(ListOp(kind), req, IF dbState = "none" THEN <<>> ELSE <<"find">>)
    /\ store' = IF StoreAvailable(dbState)
                THEN [store EXCEPT ![CollectionOf(kind)] = SerializeAll(@)]
                ELSE store
    /\ UNCHANGED <<dbState, oidCounter, issued, pending>>

ListStep(kind, req, filt, limit) ==
    /\ resp' = IF StoreAvailable(dbState)
               THEN Response(ListOp(kind), req, 200,
                             [items |-> Listing(store, kind, filt, limit)], <<"find">>)
               ELSE Unhandled(ListOp(kind), req, IF dbState = "none" THEN <<>> ELSE <<"find">>)
    /\ UNCHANGED <<dbState, store, oidCounter, issued, pending>>

ListVendors(q, limit) ==
    ListStep("vendor", [q |-> q, limit |-> limit],
             VendorsFilter(q), EffectiveLimit(limit, VendorsDefaultLimit))

ListContacts(vendor_id, limit) ==
    ListStep("contact", [vendor_id |-> vendor_id, limit |-> limit],
             ContactsFilter(vendor_id), EffectiveLimit(limit, ContactsDefaultLimit))

ListDeals(vendor_id, stage, limit) ==
    ListStep("deal", [vendor_id |-> vendor_id, stage |-> stage, limit |-> limit],
             DealsFilter(vendor_id, stage), EffectiveLimit(limit, DealsDefaultLimit))

ListNotes(vendor_id, limit) ==
    IF vendor_id.tag # "value"
    THEN /\ resp' = ValidationFailure("list_notes", [vendor_id |-> vendor_id, limit |-> limit],
                                       {"vendor_id"})
         /\ UNCHANGED <<dbState, store, oidCounter, issued, pending>>
    ELSE ListStep("note", [vendor_id |-> vendor_id, limit |-> limit],
                  NotesFilter(vendor_id), EffectiveLimit(limit, NotesDefaultLimit))

\* the store's server becomes unreachable, or reachable again; a handle that is
\* None stays None for the life of the process
StoreGoesDown ==
    /\ dbState = "up"
    /\ dbState' = "down"
    /\ UNCHANGED <<store, oidCounter, issued, pending, resp>>

StoreComesUp ==
    /\ dbState = "down"
    /\ dbState' = "up"
    /\ UNCHANGED <<store, oidCounter, issued, pending, resp>>

----------------------------------------------------------------------------
(* The requests tried *)

AcmeCorp == <<"A","c","m","e"," ","C","o","r","p">>

AcmeInc == <<"a","c","m","e"," ","i","n","c">>

AnnMail == <<"a","n","n","@","x",".","i","o">>

\* identifiers a client may send: issued ones in either case, a well-formed one
\* the store never issued, and strings ObjectId rejects
NeverIssued == [i \in 1..OidHexLen |-> "f"]

NotHex == [i \in 1..OidHexLen |-> IF i = 1 THEN "g" ELSE "0"]

TooShort == [i \in 1..(OidHexLen - 1) |-> "a"]

EmptyStr == <<>>

Id(n) == StrOid(NewOid(n))

VendorBody ==
    [name |-> Val("Ann"), email |-> Val(AnnMail), business_name |-> Val(AcmeCorp),
     phone |-> Absent, category |-> Absent, website |-> Absent, status |-> Absent,
     extra |-> Absent]

VendorBody2 ==
    [VendorBody EXCEPT !.business_name = Val(AcmeInc), !.status = Val("pending"),
                       !.phone = Val("555"), !.category = Null, !.extra = Val("x")]

InvalidVendorBodies ==
    {[VendorBody EXCEPT !.business_name = Absent],
     [VendorBody EXCEPT !.name = Null, !.email = Val(<<"a","n","n">>)],
     [VendorBody EXCEPT !.status = Val("archived")],
     [VendorBody EXCEPT !.status = Null]}

ContactBody(vid) ==
    [vendor_id |-> Val(vid), name |-> Val("Bob"), email |-> Absent, phone |-> Absent,
     role |-> Absent, extra |-> Absent]

DealBody(vid) ==
    [vendor_id |-> Val(vid), title |-> Val("Order"), value |-> Val(0), stage |-> Absent,
     notes |-> Absent, extra |-> Absent]

DealBody2(vid) == [DealBody(vid) EXCEPT !.value = Val(5), !.stage = Val("won")]

NoteBody(vid) ==
    [vendor_id |-> Val(vid), content |-> Val("called"), author |-> Absent, extra |-> Absent]

ChildBody(kind, vid) ==
    CASE kind = "contact" -> ContactBody(vid)
      [] kind = "deal" -> DealBody(vid)
      [] kind = "note" -> NoteBody(vid)

\* bodies the schema rejects: one kind of violation carrying each of the identifiers
\* ids, the other kinds carrying one identifier
InvalidChildBodies(kind, ids) ==
    CASE kind = "contact" ->
            {[ContactBody(v) EXCEPT !.name = Absent] : v \in ids}
            \cup {[ContactBody(EmptyStr) EXCEPT !.vendor_id = Null]}
      [] kind = "deal" ->
            {[DealBody(v) EXCEPT !.value = Val(-1)] : v \in ids}
            \cup {[DealBody(NeverIssued) EXCEPT !.stage = Val("bogus")],
                  [DealBody(NotHex) EXCEPT !.value = Null, !.title = Absent]}
      [] kind = "note" -> {[NoteBody(v) EXCEPT !.content = Null] : v \in ids}

\* creates go on while fewer than budget documents are created or on their way
CanCreate(budget) == Cardinality(issued) + Len(pending) < budget

CanBegin(budget, kind, body) ==
    VendorCheck(kind, body, dbState, store).done
    \/ (CanCreate(budget) /\ Len(pending) < MaxInFlight)

CanCreateVendor(budget, body) ==
    VendorErrors(body) # {} \/ ~StoreAvailable(dbState) \/ CanCreate(budget)

\* every request of the API, its inputs drawn from the sets of in
Requests(budget, in) ==
    \/ ReadRoot
    \/ \E extra \in in.extras : TestDatabase(extra)
    \/ GetSchema
    \/ \E body \in in.vendorBodies : CanCreateVendor(budget, body) /\ CreateVendor(body)
    \/ \E kind \in ChildKinds : \E body \in in.childBodies[kind] :
            CanBegin(budget, kind, body) /\ BeginCreateChild(kind, body)
    \/ \E i \in 1..Len(pending) : FinishCreateChild(i)
    \/ \E q \in in.qs, limit \in in.limits : ListVendors(q, limit)
    \/ \E vendor_id \in in.idParams, limit \in in.limits : ListContacts(vendor_id, limit)
    \/ \E vendor_id \in in.idParams, stage \in in.stages, limit \in in.limits :
            ListDeals(vendor_id, stage, limit)
    \/ \E vendor_id \in in.idParams, limit \in in.limits : ListNotes(vendor_id, limit)

----------------------------------------------------------------------------
(* The service against an empty database *)

Init ==
    /\ dbState \in {"none", "up", "down"}
    /\ store = EmptyStore
    /\ oidCounter = 0
    /\ issued = {}
    /\ pending = <<>>
    /\ resp = NoResponse

\* creates with every kind of body and identifier; a few listings
SpecInputs ==
    [extras |-> {0, MaxExtraCollections},
     vendorBodies |-> {VendorBody} \cup InvalidVendorBodies,
     childBodies |-> [kind \in ChildKinds |->
        {ChildBody(kind, v) : v \in {Id(1), NeverIssued, NotHex}
                                    \cup (IF kind = "contact"
                                          THEN {Upper(Id(1)), TooShort, EmptyStr} ELSE {})}
        \cup InvalidChildBodies(kind, {Id(1), NeverIssued, NotHex})],
     qs |-> {Null},
     idParams |-> {Null, Val(Id(1))},
     stages |-> {Null},
     limits |-> {Null}]

Next ==
    \/ Requests(MaxDocs, SpecInputs)
    \/ StoreGoesDown
    \/ StoreComesUp

Spec == Init /\ [][Next]_vars

----------------------------------------------------------------------------
(* The service against a database that already holds documents *)

DefaultLimit(kind) ==
    CASE kind = "vendor" -> VendorsDefaultLimit
      [] kind = "contact" -> ContactsDefaultLimit
      [] kind = "deal" -> DealsDefaultLimit
      [] kind = "note" -> NotesDefaultLimit

\* two vendors, and of each child entity one document per way of naming a vendor
SmallVendors ==
    <<NewDocument(Vendor(VendorBody), NewOid(1)), NewDocument(Vendor(VendorBody2), NewOid(2))>>

VariedChildren(kind, first) ==
    <<NewDocument(Entity(kind, ChildBody(kind, Upper(Id(1)))), NewOid(first)),
      NewDocument(Entity(kind, IF kind = "deal" THEN DealBody2(Id(2))
                               ELSE ChildBody(kind, Id(2))), NewOid(first + 1))>>

\* n more documents of kind, all of vendor 1
UniformChildren(kind, first, n) ==
    [i \in 1..n |-> NewDocument(Entity(kind, ChildBody(kind, Id(1))), NewOid(first + i - 1))]

\* a store of two vendors and a few documents of every child entity, the deals of
\* vendor 1 in two stages
SmallStore ==
    [k \in Kinds |->
        IF k = "vendor" THEN SmallVendors
        ELSE VariedChildren(k, CASE k = "contact" -> 3 [] k = "deal" -> 6 [] k = "note" -> 10)
             \o UniformChildren(k, CASE k = "contact" -> 5 [] k = "deal" -> 8 [] k = "note" -> 12, 1)
             \o (IF k = "deal" THEN <<NewDocument(Deal(DealBody2(Id(1))), NewOid(9))>> ELSE <<>>)]

\* a store whose collection fill holds as many documents (of one vendor, for a child
\* entity) as its listing's default limit, less short
Prefilled(fill, short) ==
    [k \in Kinds |->
        IF fill = "vendor"
        THEN IF k = "vendor"
             THEN [i \in 1..(VendorsDefaultLimit - short) |->
                     NewDocument(Vendor(IF i % 2 = 1 THEN VendorBody ELSE VendorBody2), NewOid(i))]
             ELSE <<>>
        ELSE IF k = "vendor" THEN SmallVendors
        ELSE IF k = fill
        THEN VariedChildren(k, 3) \o UniformChildren(k, 5, DefaultLimit(k) - short)
        ELSE <<>>]

DocCount(st) == Len(st["vendor"]) + Len(st["contact"]) + Len(st["deal"]) + Len(st["note"])

BulkInit ==
    /\ dbState = "up"
    /\ \E fill \in Kinds, short \in {0, 1} :
            /\ short = 1 => fill = "vendor"
            /\ store = Prefilled(fill, short)
    /\ oidCounter = DocCount(store)
    /\ issued = {}
    /\ pending = <<>>
    /\ resp = NoResponse

\* a few creates; listings with and without a limit
BulkInputs ==
    [extras |-> {0, MaxExtraCollections},
     vendorBodies |-> {VendorBody, VendorBody2},
     childBodies |-> [kind \in ChildKinds |-> {ChildBody(kind, Id(1))}],
     qs |-> {Null, Val(<<"A","c","m","e">>)},
     idParams |-> {Null, Val(Id(1))},
     stages |-> {Null, Val("lead")},
     limits |-> {Null} \cup {Val(l) : l \in {1, MaxLimit}}]

BulkNext == Requests(MaxBulkNew, BulkInputs)

BulkSpec == BulkInit /\ [][BulkNext]_vars

----------------------------------------------------------------------------
(* The service against a small database of documents of several vendors and stages *)

QueryInit ==
    /\ dbState = "up"
    /\ store = SmallStore
    /\ oidCounter = DocCount(store)
    /\ issued = {}
    /\ pending = <<>>
    /\ resp = NoResponse

\* a few creates; listings with every kind of parameter
QueryInputs ==
    [extras |-> {0, MaxExtraCollections},
     vendorBodies |-> {VendorBody},
     childBodies |-> [kind \in ChildKinds |->
        {ChildBody(kind, IF kind = "contact" THEN Upper(Id(2)) ELSE Id(1))}],
     qs |-> {Null, Val(EmptyStr), Val(<<"A","c","m","e">>), Val(<<"i","n","c">>)},
     idParams |-> {Null, Val(EmptyStr), Val(Id(1)), Val(Upper(Id(1))), Val(Id(2)),
                   Val(NeverIssued), Val(NotHex)},
     stages |-> {Null, Val(""), Val("won"), Val("lost")},
     limits |-> {Null, Val(MaxLimit)}]

QueryNext ==
    \/ Requests(MaxBulkNew, QueryInputs)
    \/ StoreGoesDown
    \/ StoreComesUp

QuerySpec == QueryInit /\ [][QueryNext]_vars

----------------------------------------------------------------------------
(* Properties.  A step that completes a request leaves the request in resp'.req, so  *)
(* "this step is handler H run on resp'.req" names the request a property is about. *)

ChildCreateOps == {CreateOp(kind) : kind \in ChildKinds}

\* whether some vendor document carries the identifier the string id_str denotes
VendorExists(st, id_str) ==
    \E i \in 1..Len(st["vendor"]) : StrOid(st["vendor"][i]["_id"]) = Lower(id_str)

\* the step is the child create of kind answering resp'.req at its vendor check
AnsweredAtCheck(kind) == resp'.op = CreateOp(kind) /\ BeginCreateChild(kind, resp'.req)

\* the step is the child create of kind answering resp'.req at its insert
AnsweredAtInsert(kind) ==
    /\ resp'.op = CreateOp(kind)
    /\ \E i \in 1..Len(pending) :
        pending[i].kind = kind /\ pending[i].body = resp'.req /\ FinishCreateChild(i)

\* the step sends a child create on from its vendor check to its insert
SentOn == Len(pending') = Len(pending) + 1

\* C1: with the store reachable, a child create whose body is valid and whose vendor_id
\* is well formed but is the identifier of no vendor fails with 404 "Vendor not found",
\* and the store and the requests in flight are left as they were; a child create goes
\* on to its insert only if its vendor was found.
C1_MissingVendorIs404 ==
    [][ /\ \A kind \in ChildKinds :
            ( /\ AnsweredAtCheck(kind)
              /\ StoreAvailable(dbState)
              /\ SchemaErrors(kind, resp'.req) = {}
              /\ IsValidObjectId(resp'.req.vendor_id.val)
              /\ ~VendorExists(store, resp'.req.vendor_id.val) )
            => ( /\ resp'.status = 404
                 /\ resp'.body = [detail |-> "Vendor not found"]
                 /\ store' = store
                 /\ pending' = pending )
        /\ SentOn => VendorExists(store, pending'[Len(pending')].body.vendor_id.val)
      ]_vars

\* a 404 answered while a vendor exists and no child document does
C1_Witness ==
    /\ resp.op \in ChildCreateOps
    /\ resp.status = 404
    /\ Len(store["vendor"]) > 0
    /\ store["contact"] = <<>> /\ store["deal"] = <<>> /\ store["note"] = <<>>

\* C2 as claimed: a child create with a valid body and a malformed vendor_id fails with
\* 400 and without any store call, whatever the state of the store.
C2_Claimed ==
    [][\A kind \in ChildKinds :
        ( /\ AnsweredAtCheck(kind)
          /\ SchemaErrors(kind, resp'.req) = {}
          /\ ~IsValidObjectId(resp'.req.vendor_id.val) )
        => ( /\ resp'.status = 400
             /\ resp'.calls = <<>>
             /\ store' = store )]_vars

\* C2: a child create with a valid body and a malformed vendor_id fails with 400
\* "Invalid id format" when the store handle is set, reachable or not, and with 500
\* when the handle is None (db["vendor"] is evaluated before the identifier is parsed);
\* it is never 404, no store call is made, nothing is persisted or left in flight.
C2_MalformedIdBeforeLookup ==
    [][\A kind \in ChildKinds :
        ( /\ AnsweredAtCheck(kind)
          /\ SchemaErrors(kind, resp'.req) = {}
          /\ ~IsValidObjectId(resp'.req.vendor_id.val) )
        => ( /\ IF dbState = "none"
                THEN resp'.status = 500
                ELSE resp'.status = 400 /\ resp'.body = [detail |-> "Invalid id format"]
             /\ resp'.calls = <<>>
             /\ store' = store
             /\ pending' = pending )]_vars

\* a 400 answered by a store that is unreachable and holds a vendor
C2_Witness ==
    /\ resp.op \in ChildCreateOps
    /\ resp.status = 400
    /\ resp.calls = <<>>
    /\ dbState = "down"
    /\ Len(store["vendor"]) > 0

\* every identifier in the store st or in the set iss of identifiers returned so far
KnownIds(st, iss) ==
    iss \cup UNION {{StrOid(st[k][i]["_id"]) : i \in 1..Len(st[k])} : k \in Kinds}

\* rec is the vendor of identifier id with the fields of the request body
IsVendorRecord(rec, id, body) ==
    /\ DOMAIN rec = {"id", "name", "email", "business_name", "phone", "category",
                     "website", "status"}
    /\ rec["id"] = id
    /\ rec["name"] = body.name.val
    /\ rec["email"] = body.email.val
    /\ rec["business_name"] = body.business_name.val
    /\ rec["phone"] = (IF body.phone.tag = "value" THEN body.phone ELSE Null)
    /\ rec["category"] = (IF body.category.tag = "value" THEN body.category ELSE Null)
    /\ rec["website"] = (IF body.website.tag = "value" THEN body.website ELSE Null)
    /\ rec["status"] = (IF body.status.tag = "value" THEN body.status.val ELSE "active")

\* what GET /vendors with no q and no limit returns from the store st
UnfilteredVendors(st) ==
    Listing(st, "vendor", VendorsFilter(Null), EffectiveLimit(Null, VendorsDefaultLimit))

\* the step is create_vendor on the valid body resp'.req, with the store reachable
ValidVendorCreate ==
    /\ resp'.op = "create_vendor"
    /\ CreateVendor(resp'.req)
    /\ VendorErrors(resp'.req) = {}
    /\ StoreAvailable(dbState)

\* the create returned a new, non-empty identifier, and the unfiltered listing that
\* follows holds the vendor under it
CreatedAndListed ==
    /\ resp'.status = 200
    /\ Len(resp'.body.id) > 0
    /\ resp'.body.id \notin KnownIds(store, issued)
    /\ \E i \in 1..Len(UnfilteredVendors(store')) :
            IsVendorRecord(UnfilteredVendors(store')[i], resp'.body.id, resp'.req)

\* C3 as claimed: after any earlier operations, a create of a valid vendor (the store
\* being reachable) returns a new non-empty id and the next unfiltered listing with the
\* default limit holds a record of that id with the fields sent.
C3_Claimed == [][ValidVendorCreate => CreatedAndListed]_vars

\* C3: as claimed, provided the vendor collection held fewer than 50 documents before
\* the create; the id is new and non-empty in every case.
C3_CreateThenList ==
    [][ValidVendorCreate =>
          /\ resp'.status = 200
          /\ Len(resp'.body.id) > 0
          /\ resp'.body.id \notin KnownIds(store, issued)
          /\ Len(store["vendor"]) < 50 => CreatedAndListed]_vars

\* a vendor created with its status left out as the 50th of its collection
C3_Witness ==
    /\ resp.op = "create_vendor"
    /\ resp.status = 200
    /\ resp.req.status.tag = "absent"
    /\ Len(store["vendor"]) = 50
    /\ StrOid(store["vendor"][50]["_id"]) = resp.body.id
    /\ store["vendor"][50]["status"] = "active"

\* the step is the list handler of kind answering resp'.req
Listed(kind) ==
    /\ resp'.op = ListOp(kind)
    /\ CASE kind = "vendor" -> ListVendors(resp'.req.q, resp'.req.limit)
         [] kind = "contact" -> ListContacts(resp'.req.vendor_id, resp'.req.limit)
         [] kind = "deal" -> ListDeals(resp'.req.vendor_id, resp'.req.stage, resp'.req.limit)
         [] kind = "note" -> ListNotes(resp'.req.vendor_id, resp'.req.limit)

\* the filter a list request asks for
RequestFilter(kind, req) ==
    CASE kind = "vendor" -> VendorsFilter(req.q)
      [] kind = "contact" -> ContactsFilter(req.vendor_id)
      [] kind = "deal" -> DealsFilter(req.vendor_id, req.stage)
      [] kind = "note" -> NotesFilter(req.vendor_id)

C5_HealthNeverFails ==
    [][ (resp'.op = "test_database" /\ TestDatabase(resp'.req.extra)) =>
            /\ resp'.status = 200
            /\ resp'.body.backend = "Running"
            /\ Len(resp'.body.collections) <= 10
            /\ dbState = "none" =>
                    /\ resp'.body.database = "Available but not initialized"
                    /\ resp'.body.connection_status = "Not Connected"
                    /\ resp'.body.collections = <<>>
            /\ dbState = "down" =>
                    /\ resp'.body.database = "Connected but Error"
                    /\ resp'.body.collections = <<>>
            /\ dbState = "up" =>
                    /\ resp'.body.database = "Connected & Working"
                    /\ Len(resp'.body.collections)
                         = Min(10, Len(CollectionNames(store, resp'.req.extra)))
            /\ store' = store ]_vars

\* ten names reported of a database that holds more than ten collections
C5_Witness ==
    /\ resp.op = "test_database"
    /\ resp.status = 200
    /\ Len(resp.body.collections) = 10
    /\ Len(CollectionNames(store, resp.req.extra)) > 10

\* the step is a create of kind, on a body the schema accepts and (for a child) with a
\* well-formed vendor_id, answered while the store is unavailable
AnsweredDuringOutage(kind) ==
    /\ resp'.op = CreateOp(kind)
    /\ ~StoreAvailable(dbState)
    /\ SchemaErrors(kind, resp'.req) = {}
    /\ IF kind = "vendor" THEN CreateVendor(resp'.req)
       ELSE /\ IsValidObjectId(resp'.req.vendor_id.val)
            /\ (BeginCreateChild(kind, resp'.req) \/ AnsweredAtInsert(kind))

\* C6 as claimed: every create answered while the store is unavailable is a 503 and
\* persists nothing.
C6_Claimed ==
    [][\A kind \in Kinds :
        AnsweredDuringOutage(kind) => (resp'.status = 503 /\ store' = store)]_vars

\* C6: every create of an otherwise valid request answered while the store is
\* unavailable (handle None or server unreachable, at the vendor lookup or at the
\* insert) is a 500 "Internal Server Error", the unhandled exception; nothing is
\* persisted, no identifier is issued, and the failing store call is made at most once.
C6_OutageIs500 ==
    [][\A kind \in Kinds :
        AnsweredDuringOutage(kind) =>
            /\ resp'.status = 500
            /\ resp'.body = [detail |-> "Internal Server Error"]
            /\ store' = store
            /\ issued' = issued
            /\ oidCounter' = oidCounter
            /\ resp'.calls \in
                 IF dbState = "none"
                 THEN {<<>>, <<"find_one">>}
                 ELSE IF kind = "vendor" THEN {<<"insert_one">>}
                 ELSE {<<"find_one">>, <<"find_one", "insert_one">>}]_vars

\* a child create whose lookup found its vendor and whose insert then failed
C6_Witness ==
    /\ resp.op \in ChildCreateOps
    /\ resp.status = 500
    /\ resp.calls = <<"find_one", "insert_one">>
    /\ VendorExists(store, resp.req.vendor_id.val)

\* a body that leaves out or nulls a required field, gives a Literal field a value
\* outside its set, or gives a deal a negative value
ViolatesSchema(kind, body) ==
    \/ \E f \in (CASE kind = "vendor" -> {"name", "email", "business_name"}
                   [] kind = "contact" -> {"vendor_id", "name"}
                   [] kind = "deal" -> {"vendor_id", "title", "value"}
                   [] kind = "note" -> {"vendor_id", "content"}) : body[f].tag # "value"
    \/ kind = "vendor" /\ body.status.tag = "null"
    \/ kind = "vendor" /\ body.status.tag = "value"
        /\ body.status.val \notin {"active", "pending", "suspended"}
    \/ kind = "deal" /\ body.stage.tag = "null"
    \/ kind = "deal" /\ body.stage.tag = "value"
        /\ body.stage.val \notin {"lead", "qualified", "proposal", "won", "lost"}
    \/ kind = "deal" /\ body.value.tag = "value" /\ body.value.val < 0

\* the step is the create of kind answering resp'.req in its first step (create_vendor
\* whole, a child create at its vendor check)
AnsweredBeforeInsert(kind) ==
    /\ resp'.op = CreateOp(kind)
    /\ IF kind = "vendor" THEN CreateVendor(resp'.req)
       ELSE BeginCreateChild(kind, resp'.req) /\ ~SentOn

HasSupplied(kind, req, doc) ==
    /\ req.vendor_id.tag = "value" => doc["vendor_id"] = req.vendor_id.val
    /\ (kind = "deal" /\ req.stage.tag = "value") => doc["stage"] = req.stage.val

\* doc has the vendor_id, and for a deal the stage, that the request supplies as a
\* non-empty string; list_notes applies an empty vendor_id too
HasApplied(kind, req, doc) ==
    /\ (req.vendor_id.tag = "value" /\ (kind = "note" \/ req.vendor_id.val # <<>>))
            => doc["vendor_id"] = req.vendor_id.val
    /\ (kind = "deal" /\ req.stage.tag = "value" /\ req.stage.val # "")
            => doc["stage"] = req.stage.val

\* the limit a list request of a child entity is answered under
ChildLimit(req) == IF req.limit.tag = "value" THEN req.limit.val ELSE 100

\* C8 as claimed: every document a child listing returns has the vendor_id (and stage)
\* supplied, and none that has them is left out while fewer than limit are returned.
C8_Claimed ==
    [][\A kind \in ChildKinds :
        (Listed(kind) /\ resp'.status = 200) =>
            /\ \A i \in 1..Len(resp'.body.items) :
                    HasSupplied(kind, resp'.req, resp'.body.items[i])
            /\ Len(resp'.body.items) < ChildLimit(resp'.req) =>
                    \A j \in 1..Len(store[kind]) :
                        HasSupplied(kind, resp'.req, store[kind][j]) =>
                            \E i \in 1..Len(resp'.body.items) :
                                resp'.body.items[i]["id"] = StrOid(store[kind][j]["_id"])]_vars

\* C8: a child listing answered by the store returns only documents whose vendor_id
\* (and, for deals, stage) equals the one supplied as a non-empty string, an empty
\* vendor_id or stage sent to list_contacts or list_deals filtering nothing, and leaves
\* out none of them while fewer than limit are returned; list_notes with a vendor_id no
\* note carries, the store reachable, answers 200 with an empty array; list_notes with
\* no vendor_id is rejected with 422 before any store call; a listing with the store
\* unavailable is a 500.
C8_ExactFilters ==
    [][\A kind \in ChildKinds :
        Listed(kind) =>
            /\ resp'.status = 200 =>
                /\ \A i \in 1..Len(resp'.body.items) :
                        HasApplied(kind, resp'.req, resp'.body.items[i])
                /\ Len(resp'.body.items) < ChildLimit(resp'.req) =>
                        \A j \in 1..Len(store[kind]) :
                            HasApplied(kind, resp'.req, store[kind][j]) =>
                                \E i \in 1..Len(resp'.body.items) :
                                    resp'.body.items[i]["id"] = StrOid(store[kind][j]["_id"])
            /\ (kind = "note" /\ resp'.req.vendor_id.tag # "value") =>
                    resp'.status = 422 /\ resp'.calls = <<>>
            /\ ~(kind = "note" /\ resp'.req.vendor_id.tag # "value") =>
                    resp'.status = IF StoreAvailable(dbState) THEN 200 ELSE 500
            /\ ( /\ kind = "note"
                 /\ StoreAvailable(dbState)
                 /\ resp'.req.vendor_id.tag = "value"
                 /\ \A j \in 1..Len(store["note"]) :
                        store["note"][j]["vendor_id"] # resp'.req.vendor_id.val )
                    => resp'.status = 200 /\ resp'.body.items = <<>>]_vars

\* deals listed by vendor and stage: some returned, fewer than the vendor has
C8_Witness ==
    /\ resp.op = "list_deals"
    /\ resp.status = 200
    /\ resp.req.vendor_id.tag = "value"
    /\ resp.req.stage.tag = "value"
    /\ resp.req.stage.val # ""
    /\ Len(resp.body.items) > 0
    /\ Len(resp.body.items) < ChildLimit(resp.req)
    /\ \E j \in 1..Len(store["deal"]) :
            /\ store["deal"][j]["vendor_id"] = resp.req.vendor_id.val
            /\ store["deal"][j]["stage"] # resp.req.stage.val

\* C9 as claimed: every persisted contact, deal and note has a vendor_id equal to the
\* identifier of a document of the vendor collection.
C9_Claimed ==
    \A kind \in ChildKinds : \A i \in 1..Len(store[kind]) :
        \E j \in 1..Len(store["vendor"]) :
            store[kind][i]["vendor_id"] = StrOid(store["vendor"][j]["_id"])

\* whether s is a prefix of t
IsPrefix(s, t) == Len(s) <= Len(t) /\ SubSeq(t, 1, Len(s)) = s

CreateOps == {CreateOp(kind) : kind \in Kinds}

\* C10: no step removes or changes a persisted document; a step that changes the store
\* is a create answered with 200 that appends one document to the collection of its
\* entity and leaves the other collections as they were; a step that answers a create
\* otherwise, or answers any read, leaves the store as it was.
C10_AppendOnly ==
    [][ /\ \A k \in Kinds : IsPrefix(store[k], store'[k])
        /\ store' # store =>
                /\ resp'.op \in CreateOps
                /\ resp'.status = 200
                /\ \A k \in Kinds :
                    Len(store'[k]) = Len(store[k]) + (IF resp'.op = CreateOp(k) THEN 1 ELSE 0)
        /\ \A kind \in Kinds :
                (AnsweredBeforeInsert(kind) \/ (kind # "vendor" /\ AnsweredAtInsert(kind))) =>
                    IF resp'.status = 200
                    THEN /\ Len(store'[kind]) = Len(store[kind]) + 1
                         /\ StrOid(store'[kind][Len(store'[kind])]["_id"]) = resp'.body.id
                         /\ \A k \in Kinds \ {kind} : store'[k] = store[k]
                    ELSE store' = store
        /\ (resp' # resp /\ resp'.op \notin CreateOps) => store' = store
      ]_vars

\* a listing that returned documents, from a store that holds them as they were persisted
C10_Witness ==
    /\ resp.op = "list_contacts"
    /\ resp.status = 200
    /\ Len(resp.body.items) > 0
    /\ "id" \in DOMAIN resp.body.items[1]
    /\ "_id" \in DOMAIN store["contact"][1]
    /\ Len(store["vendor"]) > 0

====
